---- MODULE Spec2Model ----
(***************************************************************************)
(* ThermoApp (src/main.py): saturation-table lookups, the water property   *)
(* resolver with its IAPWS / CSV-interpolation fallback, and the handlers  *)
(* that write the in-memory register gas_data_store.                       *)
(*                                                                         *)
(* Numbers.  Python floats are modelled as fixed-point integers counted in *)
(* units of 10^-6: the integer 1000000 is the float 1.0.  A product of two *)
(* numbers is divided by ONE, a quotient is multiplied by ONE, and every   *)
(* division is rounded to the nearest unit (ties to even).  round(x, n) is *)
(* rounding to a multiple of 10^(6-n) units.  Magnitudes are kept small so *)
(* that every intermediate product fits TLC's 32-bit integers.             *)
(*                                                                         *)
(* Records.  A dict is a record; the fields of every record constructor    *)
(* are written in the order in which TLC keeps a record's fields (the      *)
(* order in which the names first occur in this module), not in the order  *)
(* of the keys in the source.  The value is the same in either order.      *)
(***************************************************************************)
EXTENDS Integers, Sequences, FiniteSets, TLC

VARIABLES water_df, IAPWS_AVAILABLE, iapws_lib, gas_data_store, last, tasks

vars == <<water_df, IAPWS_AVAILABLE, iapws_lib, gas_data_store, last, tasks>>

\* No request is being handled.
NoTasks == << >>

(***************************************************************************)
(* Values                                                                  *)
(***************************************************************************)
\* Python's None (an absent JSON key, a lookup on an empty table).
None == -1000000000

\* A value float() rejects (a JSON string such as "abc").
NotANumber == -1000000001

\* float("inf"): greater than every number a request or the table carries.
Infinity == 1000000000

\* The float 1.0 in fixed-point units.
ONE == 1000000

IsNumber(v) == v # None /\ v # NotANumber

\* Python truthiness of a float-or-None: None and 0.0 are falsy.
Truthy(v) == v # None /\ v # 0

\* float(v): raises for None and for non-numeric text.
FloatRaises(v) == ~IsNumber(v)

\* The arithmetic below is written as functions of integers, so that an
\* argument is evaluated once, however often the body reads it.
abs[n \in Int] == IF n < 0 THEN 0 - n ELSE n

min2[a \in Int, b \in Int] == IF b < a THEN b ELSE a

max2[a \in Int, b \in Int] == IF b > a THEN b ELSE a

pow10[n \in 0..6] == IF n = 0 THEN 1 ELSE 10 * pow10[n - 1]

\* The integer nearest to n/d (d > 0), ties to the even neighbour.
roundHalfEven[n \in Int, d \in Int] ==
  LET q == n \div d
      r == n - q * d
  IN  IF 2 * r < d THEN q
      ELSE IF 2 * r > d THEN q + 1
      ELSE IF q % 2 = 0 THEN q ELSE q + 1

\* Greatest common divisor (Euclid).
gcd[a \in Int, b \in Int] == IF b = 0 THEN abs[a] ELSE gcd[b, a % abs[b]]

\* a * b / c (c # 0) to the nearest unit; common factors are cancelled
\* first to keep the product small.
mulDiv[a \in Int, b \in Int, c \in Int] ==
  LET cp == abs[c]
      sg == IF c < 0 THEN 0 - 1 ELSE 1
      g1 == gcd[b, cp]
      b1 == b \div g1
      c1 == cp \div g1
      g2 == gcd[a, c1]
      a2 == a \div g2
      c2 == c1 \div g2
  IN  roundHalfEven[sg * a2 * b1, c2]

\* |a| * |b| / ONE to the nearest unit, in base-1000 digits so that no partial
\* product leaves the 32-bit range.
mulAbs[a \in Nat, b \in Nat] ==
  LET a0 == a % 1000
      a1 == (a \div 1000) % 1000
      a2 == a \div 1000000
      b0 == b % 1000
      b1 == (b \div 1000) % 1000
      b2 == b \div 1000000
  IN  a2 * b2 * 1000000
      + (a2 * b1 + a1 * b2) * 1000
      + (a2 * b0 + a1 * b1 + a0 * b2)
      + roundHalfEven[(a1 * b0 + a0 * b1) * 1000 + a0 * b0, 1000000]

\* The float product a * b.
mul[a \in Int, b \in Int] ==
  IF (a < 0) = (b < 0) THEN mulAbs[abs[a], abs[b]]
  ELSE 0 - mulAbs[abs[a], abs[b]]

\* Python round(x, ndigits) for 0 <= ndigits <= 6.
round(x, ndigits) ==
  IF x = NotANumber THEN NotANumber
  ELSE roundHalfEven[x, pow10[6 - ndigits]] * pow10[6 - ndigits]

(***************************************************************************)
(* The saturation table (static/saturated_water.csv, loaded at import)     *)
(***************************************************************************)
\* A loaded table: rows in file order, T_sat and P_bar strictly increasing,
\* every cell a number of at most five decimals.
SaturatedWaterCsv ==
  << [sg |-> 4000000, T_sat |-> 20, P_bar |-> 20, vf |-> 1000000,
      vg |-> 9000000, uf |-> 2000000, ug |-> 10000000, hf |-> 3000000,
      hfg |-> 8000000, sf |-> 400000],
     [sg |-> 3800000, T_sat |-> 40, P_bar |-> 60, vf |-> 1200000,
      vg |-> 7000000, uf |-> 3000000, ug |-> 10400000, hf |-> 4000000,
      hfg |-> 7200000, sf |-> 600000],
     [sg |-> 3400000, T_sat |-> 80, P_bar |-> 100, vf |-> 1600000,
      vg |-> 5000000, uf |-> 5000000, ug |-> 10800000, hf |-> 6000000,
      hfg |-> 5600000, sf |-> 1000000] >>

\* A loaded table with a cell of six decimals (P_bar of the first row).
FineWaterCsv ==
  [SaturatedWaterCsv EXCEPT ![1].P_bar = 27]

\* A table in which two rows share T_sat = 40 and P_bar = 60 and differ in
\* their other cells.
DuplicateKeyCsv ==
  <<SaturatedWaterCsv[1], SaturatedWaterCsv[2],
    [SaturatedWaterCsv[2] EXCEPT !.vf = 1300000, !.uf = 3100000],
    SaturatedWaterCsv[3]>>

\* The same rows with the two rows of equal keys in the other order.
DuplicateKeyCsvSwapped ==
  <<DuplicateKeyCsv[1], DuplicateKeyCsv[3], DuplicateKeyCsv[2],
    DuplicateKeyCsv[4]>>

\* pd.DataFrame(): what water_df is when the CSV file is not found.
EmptyFrame == << >>

\* df.empty
empty(df) == Len(df) = 0

\* The one element of a singleton set.  Only({e : v \in {d}}) is "e, with v
\* the value of d": d is evaluated once, however often e reads v.
Only(S) == CHOOSE r \in S : TRUE

\* df[col].min()
RECURSIVE ColMin(_, _, _)
ColMin(df, col, i) ==
  IF i = Len(df) THEN df[i][col]
  ELSE min2[df[i][col], ColMin(df, col, i + 1)]

\* df[col].max()
RECURSIVE ColMax(_, _, _)
ColMax(df, col, i) ==
  IF i = Len(df) THEN df[i][col]
  ELSE max2[df[i][col], ColMax(df, col, i + 1)]

\* df.sort_values(col): the permutation of the rows in ascending key order,
\* rows of equal key in frame order.
sort_values(df, col) ==
  [i \in 1..Len(df) |->
     df[CHOOSE j \in 1..Len(df) :
          Cardinality({m \in 1..Len(df) :
                         \/ df[m][col] < df[j][col]
                         \/ (df[m][col] = df[j][col] /\ m < j)}) = i - 1]]

\* df[df[col] <= key].iloc[-1]: the last row, in frame order, whose key is <= key.
LowerRow(df, col, key) ==
  df[CHOOSE i \in 1..Len(df) :
       /\ df[i][col] <= key
       /\ \A j \in (i + 1)..Len(df) : ~(df[j][col] <= key)]

\* df[df[col] >= key].iloc[0]: the first row, in frame order, whose key is >= key.
UpperRow(df, col, key) ==
  df[CHOOSE i \in 1..Len(df) :
       /\ df[i][col] >= key
       /\ \A j \in 1..(i - 1) : ~(df[j][col] >= key)]

clamp[key \in Int, lo \in Int, hi \in Int] ==
  IF key < lo THEN lo ELSE IF key > hi THEN hi ELSE key

\* The clamp of lines 55-58, 85-90 and 118-123.
Clamp(key, lo, hi) == clamp[key, lo, hi]

\* A clamped flag that forgets the upper end of the table.
ClampedBelow(key, lo, hi) == key < lo

\* Lines 82-90 and 115-123: the clamped flag.
Clamped(key, lo, hi) == key < lo \/ key > hi

\* An interpolation with the two rows' values swapped.
LinearInterpolationSwapped(val1, val2, key, k1, k2) ==
  val2 + mulDiv[val1 - val2, key - k1, k2 - k1]

\* val1 + (val2 - val1) * (key - k1) / (k2 - k1)
LinearInterpolation(val1, val2, key, k1, k2) ==
  val1 + mulDiv[val2 - val1, key - k1, k2 - k1]

\* A short circuit that asks for the same row instead of the same key.
SameRow(lower, upper, keyCol) == lower = upper

\* Lines 64, 95 and 128: if lower[key] == upper[key]
SameKey(lower, upper, keyCol) == lower[keyCol] = upper[keyCol]

\* Lines 64-70, 95-100 and 128-133: the value between two bracketing rows.
\* The cells are numpy floats: a division by zero gives nan or inf, it does
\* not raise.
Bracketed(lower, upper, keyCol, valCol, key) ==
  IF SameKey(lower, upper, keyCol) THEN lower[valCol]
  ELSE IF upper[keyCol] - lower[keyCol] = 0 THEN NotANumber
  ELSE LinearInterpolation(lower[valCol], upper[valCol], key,
                           lower[keyCol], upper[keyCol])

interpolate_water_property_by_T(T_C, prop_name) ==
  IF empty(water_df) THEN None
  ELSE Only({ Only({ Bracketed(lower, upper, "T_sat", prop_name, T)
                     : lower \in {LowerRow(water_df, "T_sat", T)},
                       upper \in {UpperRow(water_df, "T_sat", T)} })
              : T \in {Clamp(T_C, ColMin(water_df, "T_sat", 1),
                                  ColMax(water_df, "T_sat", 1))} })

get_tsat(P) ==
  IF empty(water_df) THEN <<None, FALSE>>
  ELSE Only({
    Only({
      Only({ <<round(Bracketed(lower, upper, "P_bar", "T_sat", Pc), 5),
               Clamped(Pin, ColMin(df_sorted, "P_bar", 1),
                            ColMax(df_sorted, "P_bar", 1))>>
             : lower \in {LowerRow(df_sorted, "P_bar", Pc)},
               upper \in {UpperRow(df_sorted, "P_bar", Pc)} })
      : Pc \in {Clamp(Pin, ColMin(df_sorted, "P_bar", 1),
                           ColMax(df_sorted, "P_bar", 1))} })
    : df_sorted \in {sort_values(water_df, "P_bar")}, Pin \in {P} })

get_psat(T_C) ==
  IF empty(water_df) THEN <<None, FALSE>>
  ELSE Only({
    Only({
      Only({ <<round(Bracketed(lower, upper, "T_sat", "P_bar", Tc), 5),
               Clamped(Tin, ColMin(df_sorted, "T_sat", 1),
                            ColMax(df_sorted, "T_sat", 1))>>
             : lower \in {LowerRow(df_sorted, "T_sat", Tc)},
               upper \in {UpperRow(df_sorted, "T_sat", Tc)} })
      : Tc \in {Clamp(Tin, ColMin(df_sorted, "T_sat", 1),
                           ColMax(df_sorted, "T_sat", 1))} })
    : df_sorted \in {sort_values(water_df, "T_sat")}, Tin \in {T_C} })

(***************************************************************************)
(* The IAPWS-IF97 library (external).  It is modelled as a deterministic   *)
(* function, different from the CSV table, that raises outside its range   *)
(* of validity; iapws_lib fixes that range: IAPWS97(T, P) raises above     *)
(* T_max, IAPWS97(T, x) raises above T_crit.                               *)
(***************************************************************************)
IapwsBehaviours ==
  { [T_max |-> 1000, T_crit |-> 1000],
    [T_max |-> 1000, T_crit |-> 50],
    [T_max |-> 0 - 1, T_crit |-> 0 - 1] }

\* 273.15 in fixed-point units.
KelvinOffset == 273150000

\* The library's saturation line at T_C (pressure in MPa).
IapwsSaturation(T_C) ==
  [sg |-> 4010000 - 10000 * T_C, vf |-> 1010000 + 10000 * T_C,
   vg |-> 9010000 + 10000 * T_C, uf |-> 2010000 + 50000 * T_C,
   ug |-> 10010000 + 10000 * T_C, hf |-> 3010000 + 50000 * T_C,
   sf |-> 410000 + 10000 * T_C, P |-> 1 + T_C \div 10,
   hg |-> 11010000 + 10000 * T_C]

\* IAPWS97(T=T_K, x=x): a state on the saturation line, or an exception.
IAPWS97_Tx(T_K, x) ==
  IF T_K - KelvinOffset > iapws_lib.T_crit
  THEN [raised |-> "NotImplementedError"]
  ELSE Only({ [v |-> sat.vf + mulDiv[x, sat.vg - sat.vf, ONE], P |-> sat.P,
               u |-> sat.uf + mulDiv[x, sat.ug - sat.uf, ONE],
               h |-> sat.hf + mulDiv[x, sat.hg - sat.hf, ONE],
               s |-> sat.sf + mulDiv[x, sat.sg - sat.sf, ONE]]
              : sat \in {IapwsSaturation(T_K - KelvinOffset)} })

\* IAPWS97(T=T_K, P=P_MPa): a single-phase state, or an exception.
IAPWS97_TP(T_K, P_MPa) ==
  IF T_K - KelvinOffset > iapws_lib.T_max
  THEN [raised |-> "NotImplementedError"]
  ELSE Only({ IF P_MPa < sat.P
              THEN [v |-> sat.vg + 10000 * (sat.P - P_MPa), P |-> P_MPa,
                    u |-> sat.ug + 30000, h |-> sat.hg + 50000,
                    s |-> sat.sg + 70000]
              ELSE [v |-> sat.vf - 10000, P |-> P_MPa, u |-> sat.uf - 30000,
                    h |-> sat.hf - 50000, s |-> sat.sf - 70000]
              : sat \in {IapwsSaturation(T_K - KelvinOffset)} })

Raised(r) == "raised" \in DOMAIN r

\* The None a function returns in place of a dict.
NoDict == [none |-> TRUE]

IsDict(r) == "none" \notin DOMAIN r /\ "raised" \notin DOMAIN r

\* Lines 163-182: the saturation references, zeros when the library raises.
SaturationReference(sat_liquid, sat_vapor, P_bar) ==
  IF Raised(sat_liquid) \/ Raised(sat_vapor)
  THEN [sg |-> 0, vf |-> 0, vg |-> 0, uf |-> 0, ug |-> 0, hf |-> 0, hfg |-> 0,
        sf |-> 0, hg |-> 0, P_sat_at_T |-> P_bar]
  ELSE [sg |-> sat_vapor.s, vf |-> sat_liquid.v, vg |-> sat_vapor.v,
        uf |-> sat_liquid.u, ug |-> sat_vapor.u, hf |-> sat_liquid.h,
        hfg |-> sat_vapor.h - sat_liquid.h, sf |-> sat_liquid.s,
        hg |-> sat_vapor.h, P_sat_at_T |-> mulDiv[sat_liquid.P, 10 * ONE, ONE]]

\* Lines 190-200: the quality the IAPWS function reports.
ActualX(x, v, vf, vg) ==
  IF 0 < x /\ x < ONE THEN x
  ELSE IF Truthy(vf) /\ Truthy(vg) /\ vg # vf
  THEN max2[0, min2[ONE, mulDiv[v - vf, ONE, vg - vf]]]
  ELSE x

calculate_water_properties_iapws(T_C, P_bar, x) ==
  IF ~IAPWS_AVAILABLE THEN NoDict
  ELSE Only({
    IF Raised(water) THEN NoDict
    ELSE Only({ [v |-> water.v, sg |-> ref.sg,
                 x |-> round(ActualX(x, water.v, ref.vf, ref.vg), 4),
                 vf |-> ref.vf, vg |-> ref.vg, uf |-> ref.uf, ug |-> ref.ug,
                 hf |-> ref.hf, hfg |-> ref.hfg, sf |-> ref.sf, T |-> T_C,
                 P |-> P_bar, u |-> water.u, h |-> water.h, s |-> water.s,
                 P_sat |-> ref.P_sat_at_T, source |-> "IAPWS-IF97"]
                : ref \in {SaturationReference(
                             IAPWS97_Tx(T_C + KelvinOffset, 0),
                             IAPWS97_Tx(T_C + KelvinOffset, ONE), P_bar)} })
    : water \in {IF 0 < x /\ x < ONE
                 THEN IAPWS97_Tx(T_C + KelvinOffset, x)
                 ELSE IAPWS97_TP(T_C + KelvinOffset,
                                 mulDiv[P_bar, 100000, ONE])} })

(***************************************************************************)
(* The property resolver                                                   *)
(***************************************************************************)
\* The comparison of line 239 without its "T_sat_at_P and" guard.
is_superheated_unguarded(T_C, T_sat_at_P) == T_C > T_sat_at_P

\* Line 239: is_superheated = T_sat_at_P and T_C > T_sat_at_P
is_superheated(T_C, T_sat_at_P) == Truthy(T_sat_at_P) /\ T_C > T_sat_at_P

\* Line 240: is_subcooled = T_sat_at_P and T_C < T_sat_at_P
is_subcooled(T_C, T_sat_at_P) == Truthy(T_sat_at_P) /\ T_C < T_sat_at_P

\* The condition of line 243 with the strict comparisons dropped: IAPWS is
\* called on the saturation line as well.
CallsIapwsOnSaturation(T_C, T_sat_at_P) ==
  IAPWS_AVAILABLE /\ Truthy(T_sat_at_P)

\* Line 243: the condition under which the IAPWS function is called.
CallsIapws(T_C, T_sat_at_P) ==
  IAPWS_AVAILABLE
  /\ (is_superheated(T_C, T_sat_at_P) \/ is_subcooled(T_C, T_sat_at_P))

\* Lines 273-306: the dict of the CSV path, from the nine interpolated values.
CsvDict(T_C, P_bar, x, vf, vg, uf, ug, hf, hfg, sf, sg, P_sat_at_T_csv) ==
  IF None \in {vf, vg, uf, ug, hf, hfg, sf, sg, P_sat_at_T_csv}
  THEN [raised |-> "ValueError"]
  ELSE [v |-> vf + mulDiv[x, vg - vf, ONE], sg |-> sg, x |-> x, vf |-> vf,
        vg |-> vg, uf |-> uf, ug |-> ug, hf |-> hf, hfg |-> hfg, sf |-> sf,
        T |-> T_C, P |-> IF 0 <= x /\ x <= ONE THEN P_sat_at_T_csv ELSE P_bar,
        u |-> uf + mulDiv[x, ug - uf, ONE], h |-> hf + mulDiv[x, hfg, ONE],
        s |-> sf + mulDiv[x, sg - sf, ONE], P_sat |-> P_sat_at_T_csv,
        source |-> "CSV Interpolation"]

\* Lines 258-306: the CSV-interpolation path.
CsvInterpolation(T_C, P_bar, x) ==
  Only({ CsvDict(T_C, P_bar, x, vf, vg, uf, ug, hf, hfg, sf, sg, P_sat_at_T_csv)
         : vf  \in {interpolate_water_property_by_T(T_C, "vf")},
           vg  \in {interpolate_water_property_by_T(T_C, "vg")},
           uf  \in {interpolate_water_property_by_T(T_C, "uf")},
           ug  \in {interpolate_water_property_by_T(T_C, "ug")},
           hf  \in {interpolate_water_property_by_T(T_C, "hf")},
           hfg \in {interpolate_water_property_by_T(T_C, "hfg")},
           sf  \in {interpolate_water_property_by_T(T_C, "sf")},
           sg  \in {interpolate_water_property_by_T(T_C, "sg")},
           P_sat_at_T_csv \in {interpolate_water_property_by_T(T_C, "P_bar")} })

\* Lines 243-256: the IAPWS dict with the display quality, or NoDict.
IapwsPath(T_C, P_bar, x, T_sat_at_P) ==
  IF ~CallsIapws(T_C, T_sat_at_P) THEN NoDict
  ELSE Only({ IF ~IsDict(iapws_result) THEN NoDict
              ELSE [iapws_result EXCEPT
                      !.x = IF is_superheated(T_C, T_sat_at_P) THEN ONE ELSE 0]
              : iapws_result \in {calculate_water_properties_iapws(T_C, P_bar, x)} })

\* A resolver that lets a failure of the IAPWS function reach its caller
\* instead of falling back to the table.
calculate_water_properties_no_fallback(T_C, P_bar, x) ==
  Only({ IF IsDict(iapws_result) THEN iapws_result
         ELSE IF CallsIapws(T_C, get_tsat(P_bar)[1])
         THEN [raised |-> "IAPWS calculation failed"]
         ELSE CsvInterpolation(T_C, P_bar, x)
         : iapws_result \in {IapwsPath(T_C, P_bar, x, get_tsat(P_bar)[1])} })

\* A resolver that takes the temperature of the State 1 in the register when
\* there is one.
calculate_water_properties_at_stored_T(T_C, P_bar, x) ==
  Only({
    Only({ IF IsDict(iapws_result) THEN iapws_result
           ELSE CsvInterpolation(T, P_bar, x)
           : iapws_result \in {IapwsPath(T, P_bar, x, get_tsat(P_bar)[1])} })
    : T \in {IF "latest_submission" \in DOMAIN gas_data_store
             THEN gas_data_store.latest_submission.T ELSE T_C} })

calculate_water_properties(T_C, P_bar, x) ==
  Only({ IF IsDict(iapws_result) THEN iapws_result
         ELSE CsvInterpolation(T_C, P_bar, x)
         : iapws_result \in {IapwsPath(T_C, P_bar, x, get_tsat(P_bar)[1])} })

(***************************************************************************)
(* The register and the State 1 handler                                    *)
(***************************************************************************)
\* gas_data_store = {}
EmptyDict == [k \in {} |-> None]

\* d[key] = value
DictSet(d, key, value) ==
  [k \in DOMAIN d \cup {key} |-> IF k = key THEN value ELSE d[k]]

\* d.get(key, {})
DictGet(d, key) == IF key \in DOMAIN d THEN d[key] ELSE NoDict

\* A string key that the request body does not carry.
Absent == "<absent>"

\* str.lower() on the substance names the requests use.
lower(name) ==
  CASE name = "Water" -> "water"
    [] name = "Air" -> "air"
    [] name = "Custom" -> "custom"
    [] OTHER -> name

predefined_gases ==
  [air      |-> [k |-> 1400000, R |-> 287000],
   nitrogen |-> [k |-> 1400000, R |-> 296800],
   methane  |-> [k |-> 1299000, R |-> 518000],
   oxygen   |-> [k |-> 1395000, R |-> 259800]]

\* Lines 408-416: the phase tag of a State 1 water submission.
Phase(T_input, T_sat_at_P, x) ==
  IF x = 0 \/ (Truthy(T_sat_at_P) /\ T_input < T_sat_at_P)
  THEN "subcooled_liquid"
  ELSE IF x = ONE \/ (Truthy(T_sat_at_P) /\ T_input > T_sat_at_P)
  THEN "superheated_vapor"
  ELSE IF 0 < x /\ x < ONE THEN "two_phase"
  ELSE "saturated"

\* Lines 418-444: the record stored for a water State 1.
WaterRecord(T_input, P_input, x, T_sat_at_P, P_sat_at_T, water_props) ==
  [v |-> round(water_props.v, 6), sg |-> round(water_props.sg, 4),
   x |-> water_props.x, vf |-> round(water_props.vf, 6),
   vg |-> round(water_props.vg, 4), uf |-> round(water_props.uf, 2),
   ug |-> round(water_props.ug, 2), hf |-> round(water_props.hf, 2),
   hfg |-> round(water_props.hfg, 2), sf |-> round(water_props.sf, 4),
   T |-> T_input, P |-> water_props.P, u |-> round(water_props.u, 2),
   h |-> round(water_props.h, 2), s |-> round(water_props.s, 4),
   P_sat_at_T |-> P_sat_at_T, source |-> water_props.source,
   T_sat_at_P |-> T_sat_at_P, gas_name |-> "water", T_original |-> T_input,
   P_original |-> P_input, phase |-> Phase(T_input, T_sat_at_P, x)]

\* Lines 396-444: the record a water submission builds, or what it raises.
WaterSubmission(data_json) ==
  IF FloatRaises(data_json.T) \/ FloatRaises(data_json.P)
     \/ data_json.x = NotANumber
  THEN [raised |-> "KeyError/ValueError"]
  ELSE Only({ IF Raised(water_props) THEN water_props
              ELSE WaterRecord(data_json.T, data_json.P, x,
                               T_sat_at_P, P_sat_at_T, water_props)
              : x \in {IF data_json.x = None THEN 0 ELSE data_json.x},
                T_sat_at_P \in {get_tsat(data_json.P)[1]},
                P_sat_at_T \in {get_psat(data_json.T)[1]},
                water_props \in {calculate_water_properties(
                                   data_json.T, data_json.P,
                                   IF data_json.x = None THEN 0 ELSE data_json.x)} })

\* Line 462: the custom-gas check.
InvalidCustomGas(cp, cv) == cp = None \/ cv = None \/ cp <= cv

\* Lines 470-490: the record stored for an ideal gas with the given constants.
IdealGasRecord(gas_name, P, v, cp, cv, R, k, T) ==
  [v |-> v, cp |-> round(cp, 5), T |-> round(T, 5), P |-> P,
   u |-> round(mulDiv[cv, T, ONE], 2), h |-> round(mulDiv[cp, T, ONE], 2),
   s |-> round(0, 4), k |-> round(k, 5), R |-> round(R, 5),
   gas_name |-> gas_name, cv |-> round(cv, 5)]

\* A predefined gas with cv = R / k.
PredefinedGasRecordCvOverK(gas_name, P, v, R, k) ==
  Only({ IdealGasRecord(gas_name, P, v, mulDiv[k, cv, ONE], cv, R, k,
                        mulDiv[P, v, R])
         : cv \in {mulDiv[R, ONE, k]} })

\* Lines 457-460: cv = R / (k - 1), cp = k * cv for a predefined gas.
PredefinedGasRecord(gas_name, P, v, R, k) ==
  Only({ IdealGasRecord(gas_name, P, v, mulDiv[k, cv, ONE], cv, R, k,
                        mulDiv[P, v, R])
         : cv \in {mulDiv[R, ONE, k - ONE]} })

\* Lines 467-468: R = cp - cv, k = cp / cv for the custom gas.
CustomGasRecord(P, v, cp, cv) ==
  IdealGasRecord("custom", P, v, cp, cv, cp - cv, mulDiv[cp, ONE, cv],
                 mulDiv[P, v, cp - cv])

\* Lines 448-490: the record an ideal-gas submission builds, the 400 response
\* of line 463 ("rejected"), or what it raises.
IdealGasSubmission(gas_name, data_json) ==
  IF FloatRaises(data_json.P) \/ FloatRaises(data_json.v)
     \/ data_json.T = NotANumber
  THEN [raised |-> "KeyError/ValueError"]
  ELSE IF gas_name # "custom"
  THEN IF gas_name \notin DOMAIN predefined_gases
       THEN [raised |-> "KeyError"]
       ELSE PredefinedGasRecord(gas_name, data_json.P, data_json.v,
                                predefined_gases[gas_name].R,
                                predefined_gases[gas_name].k)
  ELSE IF data_json.cp = NotANumber \/ data_json.cv = NotANumber
  THEN [raised |-> "TypeError"]
  ELSE IF InvalidCustomGas(data_json.cp, data_json.cv)
  THEN [raised |-> "rejected"]
  ELSE IF data_json.cv = 0
  THEN [raised |-> "ZeroDivisionError"]
  ELSE CustomGasRecord(data_json.P, data_json.v, data_json.cp, data_json.cv)

\* Lines 391-495: what POST /submit-gas computes before it touches the register.
SubmitGasResult(data_json) ==
  IF data_json.gas_name = Absent THEN [raised |-> "KeyError"]
  ELSE IF lower(data_json.gas_name) = "water" THEN WaterSubmission(data_json)
  ELSE IdealGasSubmission(lower(data_json.gas_name), data_json)

\* The status field of a handler's JSON response.
Status(result) == IF IsDict(result) THEN "success" ELSE "error"

\* Lines 418 and 478: the one assignment to the register, made once the
\* record is complete.
SubmitGasStore(store, result) ==
  IF IsDict(result) THEN DictSet(store, "latest_submission", result)
  ELSE store

\* POST /submit-gas
submit_gas(data_json) ==
  \E result \in {SubmitGasResult(data_json)} :
    /\ gas_data_store' = SubmitGasStore(gas_data_store, result)
    /\ last' = [op |-> "submit_gas", status |-> Status(result)]
    /\ UNCHANGED <<tasks, water_df, IAPWS_AVAILABLE, iapws_lib>>

(***************************************************************************)
(* The State 2 handler                                                     *)
(***************************************************************************)
\* Lines 575-578: a request value float() raises on.
NextStageFloatRaises(data) ==
  NotANumber \in {data.P, data.T, data.v, data.x}

\* Line 568: process = data.get("process", "Isobaric")
NextStageProcess(data) ==
  IF data.process = Absent THEN "Isobaric" ELSE data.process

\* Lines 587-610: calc_T
CalcT(process, T_original, T_sat_at_P, T_input) ==
  CASE process = "Isothermal" -> T_original
    [] process = "Isobaric" -> IF T_input # None THEN T_input ELSE T_sat_at_P
    [] process = "Isochoric" -> IF T_input # None THEN T_input ELSE T_original
    [] OTHER -> None

\* Lines 587-610: calc_P
CalcP(process, P_original, P_sat_at_T, P_input) ==
  CASE process = "Isothermal" -> IF P_input # None THEN P_input ELSE P_sat_at_T
    [] process = "Isobaric" -> P_original
    [] process = "Isochoric" -> IF P_input # None THEN P_input ELSE P_original
    [] OTHER -> None

\* Lines 587-610: display_T
DisplayT(process, T_original, T_sat_at_P, calc_T) ==
  CASE process = "Isothermal" -> T_original
    [] process = "Isobaric" -> T_sat_at_P
    [] process = "Isochoric" -> calc_T
    [] OTHER -> None

\* Lines 587-610: display_P
DisplayP(process, P_original, P_sat_at_T, calc_P) ==
  CASE process = "Isothermal" -> P_sat_at_T
    [] process = "Isobaric" -> P_original
    [] process = "Isochoric" -> calc_P
    [] OTHER -> None

\* Lines 585 and 612-643: calc_x, clamped to [0, 1].
CalcX(process, calc_T, calc_P, x_input) ==
  Only({
    max2[0, min2[ONE,
      IF process = "Isobaric" /\ calc_T # None
      THEN Only({ IF ~Truthy(T_sat_at_fixed_P) THEN x0
                  ELSE IF calc_T > T_sat_at_fixed_P THEN ONE
                  ELSE IF calc_T < T_sat_at_fixed_P THEN 0
                  ELSE x0
                  : T_sat_at_fixed_P \in {get_tsat(calc_P)[1]} })
      ELSE IF process = "Isothermal" /\ calc_P # None
      THEN Only({ IF ~Truthy(P_sat_at_fixed_T) THEN x0
                  ELSE IF calc_P < P_sat_at_fixed_T THEN ONE
                  ELSE IF calc_P > P_sat_at_fixed_T THEN 0
                  ELSE x0
                  : P_sat_at_fixed_T \in {get_psat(calc_T)[1]} })
      ELSE x0]]
    : x0 \in {IF x_input # None THEN x_input ELSE 500000} })

\* Lines 657-663: the display values written over the resolved T and P.
OverrideDisplay(process, state2_props, display_T, display_P) ==
  IF process \in {"Isothermal", "Isobaric"}
  THEN [state2_props EXCEPT !.T = display_T, !.P = display_P]
  ELSE state2_props

\* Lines 559-663: state2_props for a water State 1, or what is raised.
NextStageProps(state1, data) ==
  Only({
    Only({
      Only({ IF Raised(state2_props) THEN state2_props
             ELSE OverrideDisplay(process, state2_props,
                    DisplayT(process, state1.T_original, T_sat_at_P, calc_T),
                    DisplayP(process, state1.P_original, P_sat_at_T, calc_P))
             : state2_props \in {calculate_water_properties(
                 IF calc_T # None THEN calc_T ELSE state1.T_original,
                 IF calc_P # None THEN calc_P ELSE state1.P_original,
                 CalcX(process, calc_T, calc_P, data.x))} })
      : calc_T \in {CalcT(process, state1.T_original, T_sat_at_P, data.T)},
        calc_P \in {CalcP(process, state1.P_original, P_sat_at_T, data.P)} })
    : process \in {NextStageProcess(data)},
      T_sat_at_P \in {get_tsat(state1.P_original)[1]},
      P_sat_at_T \in {get_psat(state1.T_original)[1]} })

\* Lines 550-691: what POST /submit-next-stage computes before it touches
\* the register.
SubmitNextStageResult(store, data) ==
  Only({ IF ~IsDict(state1) \/ state1.gas_name # "water"
         THEN [raised |-> "State 1 data not found or is not water."]
         ELSE IF NextStageFloatRaises(data)
         THEN [raised |-> "ValueError"]
         ELSE NextStageProps(state1, data)
         : state1 \in {DictGet(store, "latest_submission")} })

\* Line 673: the one assignment to the register, after state2_props is
\* resolved.
SubmitNextStageStore(store, result) ==
  IF IsDict(result) THEN DictSet(store, "state2_submission", result)
  ELSE store

\* Lines 675-691: the success response carries the rounded T, P, v, x, u, h
\* and s of state2_props.  JSONResponse serialises its content when it is
\* constructed and raises ValueError on a float that is not finite; the
\* handler's except clause then answers with an error.
SubmitNextStageStatus(result) ==
  IF ~IsDict(result) THEN "error"
  ELSE IF Infinity \in {round(result.T, 2), round(result.P, 3),
                        round(result.v, 6), round(result.x, 4),
                        round(result.u, 2), round(result.h, 2),
                        round(result.s, 4)}
  THEN "error"
  ELSE "success"

\* POST /submit-next-stage
submit_next_stage(data) ==
  \E result \in {SubmitNextStageResult(gas_data_store, data)} :
    /\ gas_data_store' = SubmitNextStageStore(gas_data_store, result)
    /\ last' = [op |-> "submit_next_stage",
                status |-> SubmitNextStageStatus(result)]
    /\ UNCHANGED <<tasks, water_df, IAPWS_AVAILABLE, iapws_lib>>

(***************************************************************************)
(* The process handler                                                     *)
(***************************************************************************)
\* d.get(key, default) on a dict of numbers.
GetOr(d, key, default) == IF key \in DOMAIN d THEN d[key] ELSE default

\* Lines 720-733: the last resort, state 2 resolved from the request itself;
\* whatever is raised is swallowed and leaves state2_data empty.
LastResort(state1, data) ==
  Only({ IF T_input = None \/ P_input = None THEN NoDict
         ELSE IF NotANumber \in {T_input, P_input, x_input} THEN NoDict
         ELSE Only({ IF Raised(props) THEN NoDict ELSE props
                     : props \in {calculate_water_properties(
                                    T_input, P_input, x_input)} })
         : T_input \in {IF data.T # None THEN data.T ELSE state1.T_original},
           P_input \in {IF data.P # None THEN data.P ELSE state1.P_original},
           x_input \in {IF data.x # None THEN data.x ELSE 500000} })

\* Lines 713-733: state2_data, from the register, the request or the last resort.
State2Data(store, state1, data) ==
  IF IsDict(DictGet(store, "state2_submission"))
  THEN DictGet(store, "state2_submission")
  ELSE IF IsDict(data.state2) THEN data.state2
  ELSE LastResort(state1, data)

\* Lines 748-769: the water process declaration.
WaterProcessInfo(state1, state2_data, data) ==
  [gas_name |-> "water",
   process |-> IF data.process = Absent THEN "Unknown" ELSE data.process,
   state1 |-> [v |-> state1.v, x |-> state1.x, T |-> state1.T, P |-> state1.P,
               u |-> state1.u, h |-> state1.h, s |-> state1.s],
   state2 |-> [v |-> GetOr(state2_data, "v", 0),
               x |-> GetOr(state2_data, "x", 0),
               T |-> GetOr(state2_data, "T", 0),
               P |-> GetOr(state2_data, "P", 0),
               u |-> GetOr(state2_data, "u", 0),
               h |-> GetOr(state2_data, "h", 0),
               s |-> GetOr(state2_data, "s", 0)]]

\* Lines 778-784: the ideal-gas process declaration.
IdealGasProcessInfo(gas_name, data) ==
  [gas_name |-> gas_name,
   process |-> IF data.process = Absent THEN "Unknown" ELSE data.process,
   v_ratio |-> data.v_ratio, p_ratio |-> data.p_ratio,
   n_value |-> data.n_value]

\* Lines 704-793: what POST /submit-process computes before it touches the
\* register.
SubmitProcessResult(store, data) ==
  Only({ IF IsDict(state1) /\ state1.gas_name = "water"
         THEN Only({ IF ~IsDict(state2_data)
                     THEN [raised |-> "State 2 data not available."]
                     ELSE IF \E key \in DOMAIN state2_data :
                               key \in {"T", "P", "v", "u", "h", "s", "x"}
                               /\ ~IsNumber(state2_data[key])
                     THEN [raised |-> "TypeError/ValueError"]
                     ELSE WaterProcessInfo(state1, state2_data, data)
                     : state2_data \in {State2Data(store, state1, data)} })
         ELSE IdealGasProcessInfo(
                IF IsDict(state1) THEN state1.gas_name ELSE "unknown", data)
         : state1 \in {DictGet(store, "latest_submission")} })

\* Lines 748 and 778: the one assignment to the register.
SubmitProcessStore(store, result) ==
  IF IsDict(result) THEN DictSet(store, "process_info", result)
  ELSE store

\* POST /submit-process
submit_process(data) ==
  \E result \in {SubmitProcessResult(gas_data_store, data)} :
    /\ gas_data_store' = SubmitProcessStore(gas_data_store, result)
    /\ last' = [op |-> "submit_process", status |-> Status(result)]
    /\ UNCHANGED <<tasks, water_df, IAPWS_AVAILABLE, iapws_lib>>

(***************************************************************************)
(* The results handlers                                                    *)
(***************************************************************************)
\* np.log, at the arguments the requests below lead to (six decimals).
NpLog ==
  (250000 :> (0 - 1386294)) @@ (378929 :> (0 - 970406))
  @@ (500000 :> (0 - 693147)) @@ (757858 :> (0 - 277259))
  @@ (1000000 :> 0) @@ (2000000 :> 693147)
  @@ (86100000 :> 4455509) @@ (100000000 :> 4605170)
  @@ (300000000 :> 5703782)

\* base ** exponent at a fractional exponent, at the arguments the requests
\* below lead to (six decimals).
NpPower ==
  (<<500000, 1400000>> :> 378929) @@ (<<500000, 400000>> :> 757858)

\* base ** exponent: by repeated multiplication for 0, 1 and 2.
Pow(base, exponent) ==
  CASE exponent = 0 -> ONE
    [] exponent = ONE -> base
    [] exponent = 2 * ONE -> mul[base, base]
    [] OTHER -> NpPower[<<base, exponent>>]

\* PROCESS_MAP (lines 808-814); PROCESS_MAP.get(raw_process) is None for any
\* other name.
PROCESS_MAP(raw_process) ==
  CASE raw_process = "Constant Volume" -> "isochoric"
    [] raw_process = "Constant Pressure" -> "isobaric"
    [] raw_process = "Isothermal" -> "isothermal"
    [] raw_process = "Adiabatic (n=k)" -> "adiabatic"
    [] raw_process = "Polytropic" -> "polytropic"
    [] OTHER -> Absent

\* np.isclose(exponent, 1.0): within 1e-8 + 1e-5 of 1.
IsClose(exponent) == abs[exponent - ONE] <= 10

\* Line 868 and the branches of lines 863-883: the exponent of the process.
Exponent(process_type, k, n) ==
  CASE process_type = "isothermal" -> ONE
    [] process_type = "polytropic" -> IF n # None THEN n ELSE ONE
    [] process_type = "adiabatic" -> k
    [] process_type = "isobaric" -> 0
    [] OTHER -> Infinity

\* Lines 861-883: state 2 of an ideal gas, [T, P, v].
IdealGasState2(process_type, T1, P1, v1, k, v_ratio, p_ratio, n) ==
  Only({
    CASE process_type = "isothermal" ->
           [v |-> v2, T |-> T1, P |-> mul[P1, mulDiv[v1, ONE, v2]]]
      [] process_type \in {"polytropic", "adiabatic"} ->
           [v |-> v2,
            T |-> mul[T1, Pow(mulDiv[v1, ONE, v2],
                              Exponent(process_type, k, n) - ONE)],
            P |-> mul[P1, Pow(mulDiv[v1, ONE, v2],
                              Exponent(process_type, k, n))]]
      [] process_type = "isochoric" ->
           [v |-> v1, T |-> mul[T1, p_ratio], P |-> mul[P1, p_ratio]]
      [] process_type = "isobaric" ->
           [v |-> v2, T |-> mul[T1, v_ratio], P |-> P1]
    : v2 \in {mul[v1, v_ratio]} })

\* Lines 892-903: the work of an ideal-gas process.
IdealGasWork(process_type, exponent, R, T1, P1, v1, P2, v2) ==
  CASE process_type = "isochoric" -> 0
    [] process_type = "isobaric" -> mul[P1, v2 - v1]
    [] process_type = "isothermal" ->
         mul[mul[R, T1], NpLog[mulDiv[v2, ONE, v1]]]
    [] OTHER ->
         IF IsClose(exponent)
         THEN mul[mul[R, T1], NpLog[mulDiv[v2, ONE, v1]]]
         ELSE mulDiv[mul[P2, v2] - mul[P1, v1], ONE, ONE - exponent]

\* A heat with the sign of the work reversed.
HeatWorkReversed(delta_u, W) == delta_u - W

\* Lines 906 and 1073: Q = delta_u + W
Heat(delta_u, W) == delta_u + W

\* Lines 851-927: what the ideal-gas branch raises before it has a result:
\* a missing key of the State 1 record, arithmetic on None, a division by a
\* zero float.
IdealGasRaises(gas, process_type, v_ratio, p_ratio, n) ==
  \/ {"cp", "cv", "R", "k"} \cap DOMAIN gas # {"cp", "cv", "R", "k"}
  \/ ~IsNumber(v_ratio)
  \/ gas.v = 0 \/ gas.T = 0 \/ gas.P = 0
  \/ (process_type \in {"isothermal", "polytropic", "adiabatic"}
      /\ mul[gas.v, v_ratio] = 0)
  \/ (process_type = "isochoric" /\ ~IsNumber(p_ratio))
  \/ (process_type = "polytropic" /\ n = None)
  \/ n = NotANumber

\* Lines 850-998: the result of an ideal-gas process.
IdealGasResults(gas, process_info, process_type) ==
  IF IdealGasRaises(gas, process_type, process_info.v_ratio,
                    process_info.p_ratio, process_info.n_value)
  THEN [raised |-> "Failed to get results"]
  ELSE Only({
    Only({
      Only({
        [gas_name |-> gas.gas_name,
         state1 |-> [v |-> round(gas.v, 5), T |-> round(gas.T, 5),
                     P |-> round(gas.P, 5), u |-> round(u1, 5),
                     h |-> round(h1, 5), s |-> round(s1, 5)],
         state2 |-> [v |-> round(state2.v, 5), T |-> round(state2.T, 5),
                     P |-> round(state2.P, 5), u |-> round(u2, 5),
                     h |-> round(h2, 5), s |-> round(s1 + delta_s, 5)],
         process_type |-> process_type,
         processed |-> [delta_u |-> round(u2 - u1, 5), W |-> round(W, 5),
                        delta_s |-> round(delta_s, 5),
                        Q |-> round(Heat(u2 - u1, W), 5),
                        delta_h |-> round(h2 - h1, 5)]]
        : W \in {IdealGasWork(process_type, exponent, gas.R, gas.T, gas.P,
                              gas.v, state2.P, state2.v)},
          delta_s \in {mul[gas.cp, NpLog[mulDiv[state2.T, ONE, gas.T]]]
                       - mul[gas.R, NpLog[mulDiv[state2.P, ONE, gas.P]]]},
          s1 \in {mul[gas.cp, NpLog[gas.T]] - mul[gas.R, NpLog[gas.P]]},
          u1 \in {mul[gas.cv, gas.T]}, u2 \in {mul[gas.cv, state2.T]},
          h1 \in {mul[gas.cp, gas.T]}, h2 \in {mul[gas.cp, state2.T]} })
      : state2 \in {IdealGasState2(process_type, gas.T, gas.P, gas.v, gas.k,
                                   process_info.v_ratio, process_info.p_ratio,
                                   process_info.n_value)} })
    : exponent \in {Exponent(process_type, gas.k, process_info.n_value)} })

\* Lines 1057-1070: the work of a water process, by the declared kind.
WaterWork(process_type, P1, P2, v1, v2, delta_u) ==
  CASE process_type = "Constant Pressure" -> mul[P1 * 100, v2 - v1]
    [] process_type = "Constant Volume" -> 0
    [] process_type = "Isothermal" ->
         mul[mulDiv[P1 + P2, 1, 2] * 100, v2 - v1]
    [] process_type = "Adiabatic" -> 0 - delta_u
    [] OTHER -> 0

\* Lines 1080-1082, 1141-1161 and 1229-1230: the divisions by v and P and the
\* axis limits, which raise on a zero or on a value that is not finite.
WaterResultsRaise(state1, state2) ==
  \/ min2[state1.v, state2.v] = 0
  \/ min2[state1.P, state2.P] = 0
  \/ Infinity \in {state1.T, state2.T, state1.P, state2.P}

\* Lines 1014-1282: GET /get-water-results
WaterResults(store) ==
  Only({
    IF ~IsDict(process_info)
    THEN [raised |-> "No water process data available."]
    ELSE IF "state1" \notin DOMAIN process_info
    THEN [raised |-> "Incomplete state data."]
    ELSE IF WaterResultsRaise(process_info.state1, process_info.state2)
    THEN [raised |-> "Failed to get water results"]
    ELSE Only({
      Only({
        [gas_name |-> "water",
         state1 |-> [v |-> round(one.v, 6), x |-> round(one.x, 4),
                     T |-> round(one.T, 3), P |-> round(one.P, 3),
                     u |-> round(one.u, 3), h |-> round(one.h, 3),
                     s |-> round(one.s, 5)],
         state2 |-> [v |-> round(two.v, 6), x |-> round(two.x, 4),
                     T |-> round(two.T, 3), P |-> round(two.P, 3),
                     u |-> round(two.u, 3), h |-> round(two.h, 3),
                     s |-> round(two.s, 5)],
         process_type |-> process_info.process,
         processed |-> [delta_u |-> round(two.u - one.u, 3), W |-> round(W, 3),
                        delta_s |-> round(two.s - one.s, 5),
                        Q |-> round(Heat(two.u - one.u, W), 3),
                        delta_h |-> round(two.h - one.h, 3)]]
        : W \in {WaterWork(process_info.process, one.P, two.P, one.v, two.v,
                           two.u - one.u)} })
      : one \in {process_info.state1}, two \in {process_info.state2} })
    : process_info \in {DictGet(store, "process_info")} })

\* Lines 823-1004: GET /get-results
Results(store) ==
  Only({
    IF ~IsDict(process_info)
    THEN [raised |-> "No simulation data found."]
    ELSE IF lower(process_info.gas_name) = "water" THEN WaterResults(store)
    ELSE IF ~IsDict(gas) THEN [raised |-> "No gas data found."]
    ELSE IF PROCESS_MAP(process_info.process) = Absent
    THEN [raised |-> "Unknown process type"]
    ELSE IdealGasResults(gas, process_info, PROCESS_MAP(process_info.process))
    : process_info \in {DictGet(store, "process_info")},
      gas \in {DictGet(store, "latest_submission")} })

\* A read that empties the register.
Cleared(store) == EmptyDict

\* gas_data_store.get(key, default), as the read handlers use it: the
\* register itself is not touched.
ReadOnly(store) == store

\* GET /get-results
get_results ==
  /\ last' = [op |-> "get_results", status |-> Status(Results(gas_data_store)),
              ret |-> Results(gas_data_store)]
  /\ gas_data_store' = ReadOnly(gas_data_store)
  /\ UNCHANGED <<tasks, water_df, IAPWS_AVAILABLE, iapws_lib>>

\* GET /get-water-results
get_water_results ==
  /\ last' = [op |-> "get_water_results",
              status |-> Status(WaterResults(gas_data_store)),
              ret |-> WaterResults(gas_data_store)]
  /\ gas_data_store' = ReadOnly(gas_data_store)
  /\ UNCHANGED <<tasks, water_df, IAPWS_AVAILABLE, iapws_lib>>

\* GET /check-gas
check_gas ==
  /\ last' = [op |-> "check_gas", status |-> "success",
              ret |-> DictGet(gas_data_store, "latest_submission")]
  /\ gas_data_store' = ReadOnly(gas_data_store)
  /\ UNCHANGED <<tasks, water_df, IAPWS_AVAILABLE, iapws_lib>>

\* GET /get-simulate-results
get_simulate_results ==
  /\ last' = [op |-> "get_simulate_results", status |-> "success",
              ret |-> DictGet(gas_data_store, "process_info")]
  /\ gas_data_store' = ReadOnly(gas_data_store)
  /\ UNCHANGED <<tasks, water_df, IAPWS_AVAILABLE, iapws_lib>>

(***************************************************************************)
(* Inputs                                                                  *)
(***************************************************************************)
\* Lookup keys and resolver inputs: 0, KeyStep, ..., MaxKey * KeyStep.
MaxKey == 11

KeyStep == 10

Keys == {KeyStep * i : i \in 0..MaxKey}

\* Qualities, inside and outside [0, 1].
Qualities == {0 - 500000, 0, 500000, ONE, 1500000}

(***************************************************************************)
(* State                                                                   *)
(***************************************************************************)
Init ==
  /\ water_df \in {EmptyFrame, SaturatedWaterCsv}
  /\ IAPWS_AVAILABLE \in BOOLEAN
  /\ iapws_lib \in IapwsBehaviours
  /\ ~IAPWS_AVAILABLE => iapws_lib = [T_max |-> 1000, T_crit |-> 1000]
  /\ gas_data_store = EmptyDict
  /\ last = [op |-> "start"]
  /\ tasks = NoTasks

\* GET /get-tsat
get_tsat_api(P) ==
  /\ last' = [key |-> P, op |-> "get_tsat",
              status |-> IF get_tsat(P)[1] = None THEN "error" ELSE "success",
              ret |-> get_tsat(P)]
  /\ UNCHANGED <<tasks, water_df, IAPWS_AVAILABLE, iapws_lib, gas_data_store>>

\* GET /get-psat
get_psat_api(T) ==
  /\ last' = [key |-> T, op |-> "get_psat",
              status |-> IF get_psat(T)[1] = None THEN "error" ELSE "success",
              ret |-> get_psat(T)]
  /\ UNCHANGED <<tasks, water_df, IAPWS_AVAILABLE, iapws_lib, gas_data_store>>

\* A call of calculate_water_properties(T_C, P_bar, x).
resolve_water_state(T_C, P_bar, x) ==
  /\ last' = [x |-> x, T |-> T_C, P |-> P_bar,
              op |-> "calculate_water_properties",
              ret |-> calculate_water_properties(T_C, P_bar, x),
              iapws_called |-> CallsIapws(T_C, get_tsat(P_bar)[1]),
              iapws_failed |-> CallsIapws(T_C, get_tsat(P_bar)[1])
                               /\ ~IsDict(calculate_water_properties_iapws(T_C, P_bar, x))]
  /\ UNCHANGED <<tasks, water_df, IAPWS_AVAILABLE, iapws_lib, gas_data_store>>

\* The body of a State 1 water request.
WaterRequest(T, P, x) ==
  [v |-> None, cp |-> None, x |-> x, T |-> T, P |-> P, gas_name |-> "water",
   cv |-> None]

\* The state after import, before any request.
Fresh == last.op = "start"

\* One call, from the state after import, on any input of the grid.
NextResolver ==
  \/ \E P \in Keys : Fresh /\ get_tsat_api(P)
  \/ \E T \in Keys : Fresh /\ get_psat_api(T)
  \/ \E T \in Keys, P \in Keys, x \in Qualities :
       Fresh /\ resolve_water_state(T, P, x)
  \/ \E T \in Keys, P \in Keys, x \in Qualities \cup {None} :
       Fresh /\ submit_gas(WaterRequest(T, P, x))

SpecResolver == Init /\ [][NextResolver]_vars

\* The last step was a call of calculate_water_properties.
Resolved == last.op = "calculate_water_properties"

\* The row of the loaded table whose column col holds value.
RowWith(col, value) ==
  water_df[CHOOSE i \in 1..Len(water_df) : water_df[i][col] = value]

(***************************************************************************)
(* Properties of the lookups and of the resolver (SpecResolver)            *)
(***************************************************************************)
\* C1: for a stored water State 1 with the table loaded, the phase tag follows
\* T against T_sat(P) whatever the input quality: T < T_sat(P) is
\* subcooled_liquid, T > T_sat(P) is superheated_vapor, and T = T_sat(P) with
\* a quality strictly between 0 and 1 is two_phase.
C1_PhaseDecidedByTemperature ==
  (last.op = "submit_gas" /\ last.status = "success"
   /\ gas_data_store.latest_submission.gas_name = "water") =>
    LET s == gas_data_store.latest_submission
    IN  /\ s.T_original < s.T_sat_at_P => s.phase = "subcooled_liquid"
        /\ s.T_original > s.T_sat_at_P => s.phase = "superheated_vapor"
        /\ (s.T_original = s.T_sat_at_P /\ 0 < s.x /\ s.x < ONE)
             => s.phase = "two_phase"

\* C2: every State calculate_water_properties returns has a quality in [0, 1]:
\* 0 below T_sat(P), 1 above it, and the input quality clamped to [0, 1] at
\* T_sat(P), on the IAPWS path and on the CSV path alike.
C2_QualityInUnitInterval ==
  (Resolved /\ IsDict(last.ret)) =>
    LET T_sat_at_P == get_tsat(last.P)[1]
    IN  /\ 0 <= last.ret.x /\ last.ret.x <= ONE
        /\ last.T < T_sat_at_P => last.ret.x = 0
        /\ last.T > T_sat_at_P => last.ret.x = ONE
        /\ last.T = T_sat_at_P => last.ret.x = Clamp(last.x, 0, ONE)

\* C3: a resolved State reports the table's saturation pressure at T when
\* T = T_sat(P), and the input pressure when T is above or below T_sat(P),
\* whichever source produced it.
C3_ReportedPressure ==
  (Resolved /\ IsDict(last.ret)) =>
    LET T_sat_at_P == get_tsat(last.P)[1]
    IN  /\ last.T = T_sat_at_P
             => last.ret.P = interpolate_water_property_by_T(last.T, "P_bar")
        /\ last.T # T_sat_at_P => last.ret.P = last.P

\* C4: the IAPWS function is called, and a State carries the IAPWS source
\* tag, only when the library is available and T differs from T_sat(P); with
\* the table loaded a request at T = T_sat(P) is answered from the table and
\* tagged "CSV Interpolation", library available or not.
C4_IapwsOnlyOffSaturation ==
  Resolved =>
    LET T_sat_at_P == get_tsat(last.P)[1]
    IN  /\ (last.iapws_called
            \/ (IsDict(last.ret) /\ last.ret.source = "IAPWS-IF97"))
             => (IAPWS_AVAILABLE /\ T_sat_at_P # None /\ last.T # T_sat_at_P)
        /\ (~empty(water_df) /\ last.T = T_sat_at_P)
             => (/\ ~last.iapws_called
                 /\ IsDict(last.ret)
                 /\ last.ret.source = "CSV Interpolation")

\* C4 witness: the library is available and works, the request lies on the
\* saturation line, and the State comes from the table.
C4_Witness ==
  /\ Resolved
  /\ IAPWS_AVAILABLE
  /\ iapws_lib = [T_max |-> 1000, T_crit |-> 1000]
  /\ ~empty(water_df)
  /\ last.T = get_tsat(last.P)[1]
  /\ IsDict(last.ret)
  /\ last.ret.source = "CSV Interpolation"

\* C5: with the table loaded, a call of the IAPWS function that fails still
\* ends in a State interpolated from the table and tagged "CSV
\* Interpolation"; nothing is raised to the caller.
C5_IapwsFailureFallsBack ==
  (Resolved /\ ~empty(water_df) /\ last.iapws_failed) =>
    (IsDict(last.ret) /\ last.ret.source = "CSV Interpolation")

\* C5 witness: the IAPWS function was called off the saturation line, failed,
\* and the caller received a CSV State.
C5_Witness ==
  /\ Resolved
  /\ last.iapws_called
  /\ last.iapws_failed
  /\ last.T # get_tsat(last.P)[1]
  /\ IsDict(last.ret)
  /\ last.ret.source = "CSV Interpolation"

\* C9: with an empty table get_tsat and get_psat return None, every call of
\* calculate_water_properties raises, and a water submission is answered with
\* an error and stores nothing, with or without the IAPWS library.
C9_EmptyTableFails ==
  empty(water_df) =>
    /\ last.op = "get_tsat" => last.ret[1] = None
    /\ last.op = "get_psat" => last.ret[1] = None
    /\ Resolved => Raised(last.ret)
    /\ last.op = "submit_gas"
         => (last.status = "error" /\ gas_data_store = EmptyDict)

\* C9 witness: the table is empty, the library is available and works, and
\* the resolver raised.
C9_Witness ==
  /\ empty(water_df)
  /\ IAPWS_AVAILABLE
  /\ iapws_lib = [T_max |-> 1000, T_crit |-> 1000]
  /\ Resolved
  /\ Raised(last.ret)

InitLookup ==
  /\ water_df \in {EmptyFrame, SaturatedWaterCsv, FineWaterCsv}
  /\ IAPWS_AVAILABLE \in BOOLEAN
  /\ iapws_lib = [T_max |-> 1000, T_crit |-> 1000]
  /\ gas_data_store = EmptyDict
  /\ last = [op |-> "start"]
  /\ tasks = NoTasks

\* The keys of the grid and the keys of the table's rows.
LookupKeys(col) == Keys \cup {water_df[i][col] : i \in 1..Len(water_df)}

\* Both lookups on the keys of row i, and get_psat on what get_tsat returned.
lookup_row(i) ==
  /\ i \in 1..Len(water_df)
  /\ last' = [op |-> "lookup_row", row |-> water_df[i],
              tsat |-> get_tsat(water_df[i].P_bar)[1],
              psat |-> get_psat(water_df[i].T_sat)[1],
              back |-> get_psat(get_tsat(water_df[i].P_bar)[1])[1]]
  /\ UNCHANGED <<tasks, water_df, IAPWS_AVAILABLE, iapws_lib, gas_data_store>>

NextLookup ==
  \/ \E P \in LookupKeys("P_bar") : get_tsat_api(P)
  \/ \E T \in LookupKeys("T_sat") : get_psat_api(T)
  \/ \E i \in 1..3 : lookup_row(i)

SpecLookup == InitLookup /\ [][NextLookup]_vars

\* P lies within the table's pressures.
WithinTable(P) ==
  /\ ColMin(water_df, "P_bar", 1) <= P
  /\ P <= ColMax(water_df, "P_bar", 1)

\* C11: for a loaded table with increasing P_bar and T_sat, get_tsat is
\* monotone within the table: every in-range pressure below the one looked
\* up gives a saturation temperature that is not larger.
C11_TsatMonotone ==
  (last.op = "get_tsat" /\ ~empty(water_df) /\ WithinTable(last.key)) =>
    \A P_a \in LookupKeys("P_bar") :
      (WithinTable(P_a) /\ P_a < last.key) => get_tsat(P_a)[1] <= last.ret[1]

\* C11 witness: a pressure strictly between two rows was looked up, and a
\* smaller in-range pressure gives a strictly smaller temperature.
C11_Witness ==
  /\ last.op = "get_tsat"
  /\ ~empty(water_df)
  /\ WithinTable(last.key)
  /\ \A i \in 1..Len(water_df) : water_df[i].P_bar # last.key
  /\ \E P_a \in LookupKeys("P_bar") :
       WithinTable(P_a) /\ P_a < last.key /\ get_tsat(P_a)[1] < last.ret[1]

\* C12: on the keys of a table row the two lookups agree with zero error:
\* get_tsat(row.P_bar) = row.T_sat, get_psat(row.T_sat) = row.P_bar, and
\* get_psat(get_tsat(row.P_bar)) = row.P_bar.
C12_ExactOnRows ==
  last.op = "lookup_row" =>
    /\ last.tsat = last.row.T_sat
    /\ last.psat = last.row.P_bar
    /\ last.back = last.row.P_bar

(***************************************************************************)
(* Sequences of submissions                                                *)
(***************************************************************************)
(***************************************************************************)
(* Lookups in tables with rows of equal keys (SpecDuplicates)              *)
(***************************************************************************)
InitDuplicates ==
  /\ water_df \in {SaturatedWaterCsv, DuplicateKeyCsv, DuplicateKeyCsvSwapped}
  /\ IAPWS_AVAILABLE \in BOOLEAN
  /\ iapws_lib = [T_max |-> 1000, T_crit |-> 1000]
  /\ gas_data_store = EmptyDict
  /\ last = [op |-> "start"]
  /\ tasks = NoTasks

\* A call of interpolate_water_property_by_T(T_C, prop_name).
interpolate_call(T_C, prop_name) ==
  /\ last' = [op |-> "interpolate_water_property_by_T", key |-> T_C,
              prop |-> prop_name,
              ret |-> <<interpolate_water_property_by_T(T_C, prop_name), FALSE>>]
  /\ UNCHANGED <<tasks, water_df, IAPWS_AVAILABLE, iapws_lib, gas_data_store>>

NextDuplicates ==
  \/ \E P \in LookupKeys("P_bar") : get_tsat_api(P)
  \/ \E T \in LookupKeys("T_sat") : get_psat_api(T)
  \/ \E T \in LookupKeys("T_sat"), prop_name \in {"vf", "uf", "P_bar"} :
       interpolate_call(T, prop_name)

SpecDuplicates == InitDuplicates /\ [][NextDuplicates]_vars

\* The column a lookup searches and the column it reads.
KeyColumn == IF last.op = "get_tsat" THEN "P_bar" ELSE "T_sat"

ValueColumn ==
  CASE last.op = "get_tsat" -> "T_sat"
    [] last.op = "get_psat" -> "P_bar"
    [] OTHER -> last.prop

\* The rows whose key is the key looked up, once clamped to the table.
RowsAtKey ==
  { i \in 1..Len(water_df) :
      water_df[i][KeyColumn]
        = clamp[last.key, ColMin(water_df, KeyColumn, 1),
                          ColMax(water_df, KeyColumn, 1)] }

\* C22: for every key and every non-empty table, the three lookups never
\* divide by zero (no lookup returns nan), and when the key, once clamped,
\* is the key of a row, of one row or of several, the value of such a row is
\* returned (rounded to five decimals by get_tsat and get_psat).
C22_NoDivisionByZero ==
  (last.op \in {"get_tsat", "get_psat", "interpolate_water_property_by_T"}
   /\ ~empty(water_df)) =>
    /\ last.ret[1] # NotANumber
    /\ RowsAtKey # {} =>
         \E i \in RowsAtKey :
           last.ret[1] = IF last.op = "interpolate_water_property_by_T"
                         THEN water_df[i][ValueColumn]
                         ELSE round(water_df[i][ValueColumn], 5)

\* get_tsat at P = 60 in a table with two different rows of P_bar = 60.
C22_Witness ==
  /\ last.op = "get_tsat" /\ last.key = 60
  /\ \E i \in RowsAtKey, j \in RowsAtKey :
       i # j /\ water_df[i] # water_df[j]
  /\ last.ret[1] = 40

(***************************************************************************)
(* Calls of the resolver with submissions in between (SpecPurity)         *)
(***************************************************************************)
InitPurity ==
  /\ water_df = SaturatedWaterCsv
  /\ IAPWS_AVAILABLE \in BOOLEAN
  /\ iapws_lib = [T_max |-> 1000, T_crit |-> 1000]
  /\ gas_data_store = EmptyDict
  /\ last = [op |-> "start"]
  /\ tasks = NoTasks

\* A call of calculate_water_properties(T_C, P_bar, x); last keeps its
\* arguments, what it returned and the register it ran under, and the same
\* of the call before it when that call had the same arguments.
resolve_again(T_C, P_bar, x) ==
  /\ last' = [x |-> x, T |-> T_C, P |-> P_bar,
              op |-> "calculate_water_properties",
              ret |-> calculate_water_properties(T_C, P_bar, x),
              register |-> gas_data_store,
              earlier |-> IF last.op = "calculate_water_properties"
                             /\ last.T = T_C /\ last.P = P_bar /\ last.x = x
                          THEN [ret |-> last.ret, register |-> last.register]
                          ELSE NoDict]
  /\ UNCHANGED <<tasks, water_df, IAPWS_AVAILABLE, iapws_lib, gas_data_store>>

\* A submission between two calls: the register changes as the handler
\* changes it, last keeps the call of the resolver.
submission_between(store) ==
  /\ gas_data_store' = store
  /\ UNCHANGED <<tasks, water_df, IAPWS_AVAILABLE, iapws_lib, last>>

NextPurity ==
  \/ \E T \in {30, 60} : resolve_again(T, 60, 500000)
  \/ \E data_json \in {WaterRequest(60, 60, None),
                       [v |-> 861000, cp |-> None, x |-> None, T |-> None,
                        P |-> 100 * ONE, gas_name |-> "air", cv |-> None]} :
       submission_between(
         SubmitGasStore(gas_data_store, SubmitGasResult(data_json)))
  \/ submission_between(
       SubmitNextStageStore(gas_data_store,
         SubmitNextStageResult(gas_data_store,
           [v |-> None, x |-> None, T |-> 60, P |-> None,
            process |-> "Isobaric"])))
  \/ submission_between(
       SubmitProcessStore(gas_data_store,
         SubmitProcessResult(gas_data_store,
           [x |-> None, T |-> None, P |-> None,
            process |-> "Constant Pressure", state2 |-> NoDict,
            v_ratio |-> 2 * ONE, p_ratio |-> None, n_value |-> None])))

SpecPurity == InitPurity /\ [][NextPurity]_vars

InitResults ==
  /\ water_df = SaturatedWaterCsv
  /\ IAPWS_AVAILABLE \in BOOLEAN
  /\ iapws_lib = [T_max |-> 1000, T_crit |-> 1000]
  /\ gas_data_store = EmptyDict
  /\ last = [op |-> "start"]
  /\ tasks = NoTasks

\* The body of a State 1 ideal-gas request at P = 100 kPa, v = 0.861 m3/kg.
IdealGasRequest(gas_name, T, cp, cv) ==
  [v |-> 861000, cp |-> cp, x |-> None, T |-> T, P |-> 100 * ONE,
   gas_name |-> gas_name, cv |-> cv]

\* State 1: water, air, air with a T, cp and cv of the user's, a custom gas.
ResultsGasRequests ==
  { WaterRequest(30, 60, 500000),
    IdealGasRequest("air", None, None, None),
    IdealGasRequest("Air", 500 * ONE, 2 * ONE, ONE),
    IdealGasRequest("custom", None, 2 * ONE, ONE) }

\* The body of a process declaration.
ProcessDeclaration(process, v_ratio, p_ratio, n_value) ==
  [x |-> None, T |-> None, P |-> None, process |-> process, state2 |-> NoDict,
   v_ratio |-> v_ratio, p_ratio |-> p_ratio, n_value |-> n_value]

\* The kinds of PROCESS_MAP, the kinds get_water_results tells apart and a
\* kind by the name the State 2 handler knows it by.
ResultsProcessRequests ==
  { ProcessDeclaration("Constant Volume", None, 2 * ONE, None),
    ProcessDeclaration("Constant Volume", 2 * ONE, 2 * ONE, None),
    ProcessDeclaration("Constant Pressure", 2 * ONE, None, None),
    ProcessDeclaration("Isothermal", 2 * ONE, None, None),
    ProcessDeclaration("Adiabatic (n=k)", 2 * ONE, None, None),
    ProcessDeclaration("Polytropic", 2 * ONE, None, 2 * ONE),
    ProcessDeclaration("Adiabatic", 2 * ONE, None, None),
    ProcessDeclaration("Isobaric", 2 * ONE, None, None) }

NextResults ==
  \/ \E data_json \in ResultsGasRequests : submit_gas(data_json)
  \/ submit_next_stage([v |-> None, x |-> None, T |-> 60, P |-> None,
                        process |-> "Isobaric"])
  \/ \E data \in ResultsProcessRequests : submit_process(data)
  \/ get_results
  \/ get_water_results
  \/ check_gas
  \/ get_simulate_results
  \/ get_tsat_api(60)
  \/ get_psat_api(30)
  \/ resolve_water_state(30, 60, 500000)

SpecResults == InitResults /\ [][NextResults]_vars

\* C13: a State 1 submission of a predefined gas stores that gas's R and k,
\* cv = R/(k-1), cp = k*cv, T = P*v/R, u = cv*T, h = cp*T and s = 0, each
\* rounded as the record rounds it, whatever T, cp or cv the request sent.
C13_PredefinedGasRecord ==
  ("latest_submission" \in DOMAIN gas_data_store
   /\ gas_data_store.latest_submission.gas_name \in DOMAIN predefined_gases) =>
    LET stored == gas_data_store.latest_submission
        gas == predefined_gases[stored.gas_name]
        cv == mulDiv[gas.R, ONE, gas.k - ONE]
        cp == mulDiv[gas.k, cv, ONE]
        T == mulDiv[stored.P, stored.v, gas.R]
    IN  /\ stored.R = gas.R /\ stored.k = gas.k
        /\ stored.cv = round(cv, 5) /\ stored.cp = round(cp, 5)
        /\ stored.T = round(T, 5)
        /\ stored.u = round(mul[cv, T], 2)
        /\ stored.h = round(mul[cp, T], 2)
        /\ stored.s = 0

\* Air at 100 kPa and 0.861 m3/kg is stored with T = 300 K, cv = 0.7175,
\* cp = 1.0045, u = 215.25, h = 301.35.
C13_Witness ==
  /\ last.op = "submit_gas" /\ last.status = "success"
  /\ "latest_submission" \in DOMAIN gas_data_store
  /\ gas_data_store.latest_submission.gas_name = "air"
  /\ gas_data_store.latest_submission.T = 300 * ONE
  /\ gas_data_store.latest_submission.cv = 717500
  /\ gas_data_store.latest_submission.cp = 1004500
  /\ gas_data_store.latest_submission.u = 215250000
  /\ gas_data_store.latest_submission.h = 301350000

\* get_results has answered for an ideal gas whose State 1 and process
\* declaration name the same gas, the declaration carrying the ratio its
\* kind uses: p_ratio for isochoric, v_ratio otherwise, n for polytropic.
IdealGasProcessDeclared ==
  /\ last.op = "get_results"
  /\ "latest_submission" \in DOMAIN gas_data_store
  /\ "process_info" \in DOMAIN gas_data_store
  /\ gas_data_store.process_info.gas_name # "water"
  /\ gas_data_store.latest_submission.gas_name
       = gas_data_store.process_info.gas_name
  /\ PROCESS_MAP(gas_data_store.process_info.process) # Absent
  /\ IF PROCESS_MAP(gas_data_store.process_info.process) = "isochoric"
     THEN IsNumber(gas_data_store.process_info.p_ratio)
     ELSE IsNumber(gas_data_store.process_info.v_ratio)
  /\ PROCESS_MAP(gas_data_store.process_info.process) = "polytropic" =>
       IsNumber(gas_data_store.process_info.n_value)

\* C14: for an ideal gas, get_results computes state 2 and the work from
\* state 1 and the declaration as the process table says: isochoric v2 = v1
\* (v_ratio ignored), P2 = P1*p_ratio, T2 = T1*p_ratio, W = 0; isobaric
\* v2 = v1*v_ratio, P2 = P1, T2 = T1*v_ratio, W = P1(v2-v1); isothermal
\* v2 = v1*v_ratio, P2 = P1*v1/v2, T2 = T1, W = R*T1*ln(v2/v1); adiabatic and
\* polytropic with exponent e: P2 = P1(v1/v2)^e, T2 = T1(v1/v2)^(e-1),
\* W = (P2*v2 - P1*v1)/(1-e).
C14_IdealGasProcessTable ==
  IdealGasProcessDeclared =>
    LET gas == gas_data_store.latest_submission
        info == gas_data_store.process_info
        kind == PROCESS_MAP(info.process)
        e == IF kind = "adiabatic" THEN gas.k ELSE info.n_value
        v2 == IF kind = "isochoric" THEN gas.v ELSE mul[gas.v, info.v_ratio]
        P2 == CASE kind = "isochoric" -> mul[gas.P, info.p_ratio]
                [] kind = "isobaric" -> gas.P
                [] kind = "isothermal" -> mul[gas.P, mulDiv[gas.v, ONE, v2]]
                [] OTHER -> mul[gas.P, Pow(mulDiv[gas.v, ONE, v2], e)]
        T2 == CASE kind = "isochoric" -> mul[gas.T, info.p_ratio]
                [] kind = "isobaric" -> mul[gas.T, info.v_ratio]
                [] kind = "isothermal" -> gas.T
                [] OTHER -> mul[gas.T, Pow(mulDiv[gas.v, ONE, v2], e - ONE)]
        W == CASE kind = "isochoric" -> 0
               [] kind = "isobaric" -> mul[gas.P, v2 - gas.v]
               [] kind = "isothermal" ->
                    mul[mul[gas.R, gas.T], NpLog[mulDiv[v2, ONE, gas.v]]]
               [] OTHER ->
                    mulDiv[mul[P2, v2] - mul[gas.P, gas.v], ONE, ONE - e]
    IN  /\ last.status = "success"
        /\ last.ret.state2.v = round(v2, 5)
        /\ last.ret.state2.P = round(P2, 5)
        /\ last.ret.state2.T = round(T2, 5)
        /\ last.ret.processed.W = round(W, 5)

\* A result of get_results or get_water_results.
Answered ==
  last.op \in {"get_results", "get_water_results"} /\ last.status = "success"

\* The last decimal a result keeps: 5 decimals for an ideal gas, 3 for water.
RoundingUnit(result) == IF result.gas_name = "water" THEN 1000 ELSE 10

DeclaredKind(process) ==
  CASE process \in {"Constant Pressure", "Isobaric"} -> "isobaric"
    [] process \in {"Constant Volume", "Isochoric"} -> "isochoric"
    [] process = "Isothermal" -> "isothermal"
    [] process \in {"Adiabatic", "Adiabatic (n=k)"} -> "adiabatic"
    [] OTHER -> Absent

\* C16: for a water process the work is selected by the declared process
\* kind, for every kind the State 2 and process submissions accept: isobaric
\* W = P1*(v2-v1) in kPa, isochoric W = 0, isothermal
\* W = ((P1+P2)/2)*(v2-v1) in kPa, adiabatic W = -delta_u.
C16_WaterWorkByKind ==
  (Answered /\ last.ret.gas_name = "water"
   /\ DeclaredKind(gas_data_store.process_info.process) # Absent) =>
    LET one == gas_data_store.process_info.state1
        two == gas_data_store.process_info.state2
        kind == DeclaredKind(gas_data_store.process_info.process)
    IN  last.ret.processed.W =
          round(CASE kind = "isobaric" -> mul[one.P * 100, two.v - one.v]
                  [] kind = "isochoric" -> 0
                  [] kind = "isothermal" ->
                       mul[mulDiv[one.P + two.P, 1, 2] * 100, two.v - one.v]
                  [] kind = "adiabatic" -> 0 - (two.u - one.u), 3)

\* The lookups, the property resolution and the read and result operations.
ReadOperations ==
  {"get_tsat", "get_psat", "calculate_water_properties", "check_gas",
   "get_simulate_results", "get_results", "get_water_results"}

\* C19: the saturation lookups, the water property resolution and the read
\* and result operations leave the register and the saturation table
\* unchanged.
C19_ReadsLeaveStateUnchanged ==
  [][last'.op \in ReadOperations =>
       (gas_data_store' = gas_data_store /\ water_df' = water_df)]_vars

\* A result has been returned and the register still holds all three stages.
C19_Witness ==
  /\ last.op = "get_water_results" /\ last.status = "success"
  /\ DOMAIN gas_data_store
       = {"latest_submission", "state2_submission", "process_info"}

\* C20: every result of get_results is computed from a State 1 and a process
\* declaration of the same substance: the gas named in the stored
\* declaration is the gas of the State 1 record the calculation reads, and
\* the returned gas_name is that substance.
C20_ResultOfOneSubstance ==
  (last.op = "get_results" /\ last.status = "success") =>
    /\ last.ret.gas_name = gas_data_store.process_info.gas_name
    /\ gas_data_store.process_info.gas_name # "water" =>
         gas_data_store.latest_submission.gas_name
           = gas_data_store.process_info.gas_name

(***************************************************************************)
(* Sequences of submissions (Spec)                                         *)
(***************************************************************************)
GasRequest(gas_name, cp, cv) ==
  [v |-> 3000000, cp |-> cp, x |-> None, T |-> None, P |-> 287,
   gas_name |-> gas_name, cv |-> cv]

\* The State 1 requests: water below, at and above saturation, with and
\* without a quality; predefined, custom, invalid and unknown gases.
SubmitGasRequests ==
  { WaterRequest(30, 60, 500000),
    WaterRequest(60, 60, None),
    WaterRequest(NotANumber, 60, None),
    GasRequest("air", None, None),
    GasRequest("custom", 14, 11),
    GasRequest("custom", 10, 10),
    GasRequest("custom", None, 10),
    GasRequest("helium", None, None),
    GasRequest(Absent, None, None) }

NextStageRequest(process, T, P, x) ==
  [v |-> None, x |-> x, T |-> T, P |-> P, process |-> process]

NextStageRequests ==
  { NextStageRequest("Isobaric", 60, None, None),
    NextStageRequest("Isothermal", None, None, None),
    NextStageRequest("Isochoric", Infinity, None, None),
    NextStageRequest("Adiabatic", None, None, None),
    NextStageRequest(Absent, NotANumber, None, None) }

ProcessRequest(process, state2) ==
  [x |-> None, T |-> None, P |-> None, process |-> process, state2 |-> state2,
   v_ratio |-> 2 * ONE, p_ratio |-> None, n_value |-> None]

ProcessRequests ==
  { ProcessRequest("Constant Pressure", NoDict),
    ProcessRequest("Bogus", NoDict),
    ProcessRequest(Absent, [T |-> 30, P |-> 60]) }

Next ==
  \/ \E data_json \in SubmitGasRequests : submit_gas(data_json)
  \/ \E data \in NextStageRequests : submit_next_stage(data)
  \/ \E data \in ProcessRequests : submit_process(data)

Spec == Init /\ [][Next]_vars

\* PROCESS_MAP (lines 808-814) and the kinds get_water_results tells apart
\* (lines 1057-1070): the process kinds the program recognises.
RecognizedProcessKinds ==
  {"Constant Volume", "Constant Pressure", "Isothermal", "Adiabatic (n=k)",
   "Polytropic", "Adiabatic"}

(***************************************************************************)
(* Properties of the register (Spec)                                       *)
(***************************************************************************)
\* C6: a State 1, State 2 or process submission answered with an error leaves
\* every key of the register as it was before the request.
C6_ErrorLeavesRegisterUnchanged ==
  [][last'.status = "error" => gas_data_store' = gas_data_store]_vars

\* C7: every ideal-gas record in the register satisfies cp > cv and R > 0 in
\* the values it stores.
C7_StoredGasHasPositiveR ==
  ("latest_submission" \in DOMAIN gas_data_store
   /\ gas_data_store.latest_submission.gas_name # "water") =>
    /\ gas_data_store.latest_submission.cp > gas_data_store.latest_submission.cv
    /\ gas_data_store.latest_submission.R > 0

\* C8: a process declaration is stored only for a recognised process kind,
\* for water and for ideal gases alike.
C8_UnknownProcessKindRejected ==
  "process_info" \in DOMAIN gas_data_store =>
    gas_data_store.process_info.process \in RecognizedProcessKinds

\* The handler that writes each stage of the register.
StageOperation ==
  [latest_submission |-> "submit_gas", process_info |-> "submit_process",
   state2_submission |-> "submit_next_stage"]

\* C18: after any sequence of submissions, the register entry of each stage
\* (state 1, state 2, process) is the record of the most recent successful
\* submission for that stage: an entry changes only in a submission for its
\* stage that is answered with success, and the register never holds keys
\* other than those three.
C18_RegisterHoldsLatestSuccess ==
  [][/\ DOMAIN gas_data_store' \subseteq DOMAIN StageOperation
     /\ \A stage \in DOMAIN StageOperation :
          DictGet(gas_data_store', stage) # DictGet(gas_data_store, stage) =>
            (last'.op = StageOperation[stage] /\ last'.status = "success")]_vars

\* C21: a State 2 submission or a process submission made when the register
\* holds no State 1 is rejected and stores nothing, so that a process
\* declaration is in the register only after a successful State 1 submission.
C21_NoStageWithoutState1 ==
  [][("latest_submission" \notin DOMAIN gas_data_store
      /\ last'.op \in {"submit_next_stage", "submit_process"}) =>
       (last'.status = "error" /\ gas_data_store' = gas_data_store)]_vars

\* C24: for water, the State 2 that submit_process copies into the process
\* declaration was resolved against the State 1 that is current at that
\* moment: a State 2 computed from an earlier State 1 is never used for a
\* later process declaration.
C24_State2OfCurrentState1 ==
  [][(/\ last'.op = "submit_process" /\ last'.status = "success"
      /\ "latest_submission" \in DOMAIN gas_data_store
      /\ gas_data_store.latest_submission.gas_name = "water"
      /\ "state2_submission" \in DOMAIN gas_data_store) =>
       \E data \in NextStageRequests :
         gas_data_store.state2_submission
           = SubmitNextStageResult(gas_data_store, data)]_vars

\* C25: the State 2 record stored by submit_next_stage is internally
\* consistent for every process kind and every input: the T and P it stores
\* are the temperature and pressure at which its v, u, h, s and x were
\* resolved, that is the T and P of the record the resolver returned for
\* them.
C25_State2Consistent ==
  [][\A data \in NextStageRequests :
       (/\ last'.op = "submit_next_stage" /\ last'.status = "success"
        /\ IsDict(SubmitNextStageResult(gas_data_store, data))
        /\ gas_data_store'
             = SubmitNextStageStore(gas_data_store,
                 SubmitNextStageResult(gas_data_store, data))) =>
         LET state1 == gas_data_store.latest_submission
             stored == gas_data_store'.state2_submission
             process == NextStageProcess(data)
             calc_T == CalcT(process, state1.T_original,
                             get_tsat(state1.P_original)[1], data.T)
             calc_P == CalcP(process, state1.P_original,
                             get_psat(state1.T_original)[1], data.P)
             resolved == calculate_water_properties(
                           IF calc_T # None THEN calc_T ELSE state1.T_original,
                           IF calc_P # None THEN calc_P ELSE state1.P_original,
                           CalcX(process, calc_T, calc_P, data.x))
         IN  /\ stored.v = resolved.v /\ stored.u = resolved.u
             /\ stored.h = resolved.h /\ stored.s = resolved.s
             /\ stored.x = resolved.x
             /\ stored.T = resolved.T
             /\ stored.P = resolved.P]_vars

(***************************************************************************)
(* Concurrent requests (SpecConcurrent).  The submission handlers are      *)
(* coroutines on one event loop: they yield at "await request.json()" and  *)
(* nowhere else, so the body of one runs to its end before the body of     *)
(* another starts.  The read handlers are plain functions, which the       *)
(* server runs on worker threads: a read can fall between any two steps of *)
(* a coroutine.                                                            *)
(***************************************************************************)
Writers == {"w1", "w2"}

\* The State 1 in the register when the concurrent requests arrive.
EarlierState1 == SubmitGasResult(WaterRequest(30, 60, 500000))

ConcurrentRequests ==
  { [data |-> WaterRequest(60, 60, None), handler |-> "submit_gas"],
    [data |-> IdealGasRequest("air", None, None, None),
     handler |-> "submit_gas"],
    [data |-> NextStageRequest("Isobaric", 60, None, None),
     handler |-> "submit_next_stage"],
    [data |-> NextStageRequest("Isothermal", None, None, None),
     handler |-> "submit_next_stage"] }

InitConcurrent ==
  /\ water_df = SaturatedWaterCsv
  /\ IAPWS_AVAILABLE \in BOOLEAN
  /\ iapws_lib = [T_max |-> 1000, T_crit |-> 1000]
  /\ gas_data_store \in {EmptyDict,
                         SubmitGasStore(EmptyDict, EarlierState1)}
  /\ last = [op |-> "start"]
  /\ tasks = [t \in Writers |-> [pc |-> "idle"]]

\* The key of the register a handler assigns.
HandlerStage(handler) ==
  IF handler = "submit_gas" THEN "latest_submission" ELSE "state2_submission"

\* What a handler computes from its request and the register.
HandlerResult(handler, store, data) ==
  IF handler = "submit_gas" THEN SubmitGasResult(data)
  ELSE SubmitNextStageResult(store, data)

\* A handler that puts an empty record in the register and then fills it.
EmptyRecordFirst(store, handler, result) ==
  IF IsDict(result) THEN DictSet(store, HandlerStage(handler), EmptyDict)
  ELSE store

\* Lines 396-417, 448-477 and 552-672: the record is built in local names;
\* the register is not touched before the record is complete.
WhileBuilding(store, handler, result) == store

\* A request arrives: the coroutine starts and waits at
\* "await request.json()" (lines 392 and 551).
receive(t, request) ==
  /\ tasks[t].pc = "idle"
  /\ tasks' = [tasks EXCEPT ![t] = [data |-> request.data,
                                    handler |-> request.handler,
                                    pc |-> "awaiting"]]
  /\ UNCHANGED <<water_df, IAPWS_AVAILABLE, iapws_lib, gas_data_store, last>>

\* The event loop resumes the coroutine, when no other coroutine is in its
\* body: it reads the register and builds its record.
build(t) ==
  /\ tasks[t].pc = "awaiting"
  /\ \A u \in Writers : tasks[u].pc # "built"
  /\ \E result \in {HandlerResult(tasks[t].handler, gas_data_store,
                                  tasks[t].data)} :
       /\ tasks' = [tasks EXCEPT ![t] = [handler |-> tasks[t].handler,
                                         pc |-> "built", record |-> result]]
       /\ gas_data_store' = WhileBuilding(gas_data_store, tasks[t].handler,
                                          result)
  /\ UNCHANGED <<water_df, IAPWS_AVAILABLE, iapws_lib, last>>

\* Lines 418, 478 and 673: the one assignment of the complete record, and
\* the response.
assign(t) ==
  /\ tasks[t].pc = "built"
  /\ gas_data_store' =
       IF tasks[t].handler = "submit_gas"
       THEN SubmitGasStore(gas_data_store, tasks[t].record)
       ELSE SubmitNextStageStore(gas_data_store, tasks[t].record)
  /\ tasks' = [tasks EXCEPT ![t] =
                 [handler |-> tasks[t].handler, pc |-> "done",
                  record |-> tasks[t].record,
                  order |-> Cardinality({u \in Writers :
                                           tasks[u].pc = "done"}) + 1]]
  /\ last' = [op |-> tasks[t].handler,
              status |-> IF tasks[t].handler = "submit_gas"
                         THEN Status(tasks[t].record)
                         ELSE SubmitNextStageStatus(tasks[t].record)]
  /\ UNCHANGED <<water_df, IAPWS_AVAILABLE, iapws_lib>>

NextConcurrent ==
  \/ \E t \in Writers, request \in ConcurrentRequests : receive(t, request)
  \/ \E t \in Writers : build(t)
  \/ \E t \in Writers : assign(t)
  \/ check_gas

SpecConcurrent == InitConcurrent /\ [][NextConcurrent]_vars

\* The complete records a stage can hold: what a handler builds from one of
\* the requests, under a State 1 of one of the requests.
CompleteRecords(stage) ==
  IF stage = "latest_submission"
  THEN {EarlierState1}
       \cup {SubmitGasResult(request.data) :
               request \in {r \in ConcurrentRequests :
                              r.handler = "submit_gas"}}
  ELSE {SubmitNextStageResult([latest_submission |-> state1], request.data) :
          state1 \in {EarlierState1, SubmitGasResult(WaterRequest(60, 60, None))},
          request \in {r \in ConcurrentRequests :
                         r.handler = "submit_next_stage"}}

\* Both writers have written the same stage.
BothWrote(stage) ==
  \A t \in Writers :
    /\ tasks[t].pc = "done"
    /\ HandlerStage(tasks[t].handler) = stage
    /\ IsDict(tasks[t].record)

\* C23: when two submissions for the same stage are processed concurrently,
\* the register ends up holding exactly one of the two complete records, the
\* one written last, never a mixture of fields from both, and a concurrent
\* reader of that stage never observes a partially built record.
C23_LastWriterWins ==
  /\ \A stage \in DOMAIN gas_data_store :
       gas_data_store[stage] \in CompleteRecords(stage)
  /\ \A stage \in {"latest_submission", "state2_submission"} :
       BothWrote(stage) =>
         \E t \in Writers :
           tasks[t].order = 2 /\ gas_data_store[stage] = tasks[t].record
  /\ last.op = "check_gas" =>
       last.ret \in CompleteRecords("latest_submission") \cup {NoDict}

\* Two State 1 submissions with different records were handled at the same
\* time, and a read fell between the building of a record and its
\* assignment.
C23_Witness ==
  /\ tasks # NoTasks
  /\ \A t \in Writers : tasks[t].pc \in {"built", "done"}
  /\ \A t \in Writers : tasks[t].handler = "submit_gas"
  /\ tasks["w1"].record # tasks["w2"].record
  /\ \E t \in Writers : tasks[t].pc = "built"
  /\ last.op = "check_gas" /\ IsDict(last.ret)

====
